---- MODULE Spec2Model ----
(***************************************************************************)
(* Model of src/Homework6_4750.py: class SudokuSolver, a backtracking      *)
(* Sudoku solver with MRV/degree variable selection and forward checking.  *)
(* The recursion of backtrack() is an explicit stack of frames; every      *)
(* action is one straight-line piece of solve()/backtrack() between two    *)
(* call or return points.                                                  *)
(***************************************************************************)
EXTENDS Integers, Sequences, FiniteSets, TLC

\* range(9): rows, columns and digits of the grid (src line 10).
N == 9
\* side of a box, the 3 of `3 * (row // 3)` (src line 28).
BoxSize == 3
\* len(assignments) < 4: how many assignments are logged (src line 123).
LogLimit == 4

\* ---- bounds of the model ------------------------------------------------
\* Largest clock reading (time.time() - start_time), in abstract ticks.
\* A limit equal to MaxElapsed is a deadline that never fires.
MaxElapsed == 1
\* Largest number of cells of HoleOrder blanked in an input grid.
MaxHoles == 3
\* Steps granted to the position-free run that C9 compares with; it stops by
\* itself when its search is over.
RefFuel == 512

Idx == 0 .. (N - 1)
Digits == 1 .. N
Cells == Idx \X Idx

\* The solved grid the program prints for puzzles[0] (src lines 142-144),
\* rows top to bottom.  Input grids are obtained from it by blanking cells
\* and by overwriting fixed cells.
Base ==
  << <<3, 7, 1, 4, 8, 2, 6, 9, 5>>,
     <<9, 2, 5, 7, 1, 6, 8, 3, 4>>,
     <<4, 6, 8, 9, 3, 5, 7, 1, 2>>,
     <<5, 8, 3, 1, 6, 4, 9, 2, 7>>,
     <<6, 9, 2, 8, 5, 7, 1, 4, 3>>,
     <<7, 1, 4, 2, 9, 3, 5, 6, 8>>,
     <<8, 3, 7, 6, 4, 9, 2, 5, 1>>,
     <<1, 5, 6, 3, 2, 8, 4, 7, 9>>,
     <<2, 4, 9, 5, 7, 1, 3, 8, 6>> >>

\* A grid is puzzle[row][col], rows and columns numbered from 0.
Grid(f(_, _)) == [r \in Idx |-> [c \in Idx |-> f(r, c)]]

BaseGrid == Grid(LAMBDA r, c : Base[r + 1][c + 1])

\* ---- input grids --------------------------------------------------------
\* Cells blanked, in this order, to make the small input grids.  (0,1), (0,0)
\* and (6,1) make cell (0,1) accept both 3 and 7, so the search must back up.
HoleOrder == << <<0, 1>>, <<0, 0>>, <<6, 1>>, <<0, 4>>, <<4, 1>>, <<6, 0>> >>

\* Overwrites of one fixed cell, <<row, col, value>>: the first repeats the 9
\* of cell (0,7) in row 0, the second repeats the 7 of cell (0,1).
Corruptions == << <<0, 8, 9>>, <<0, 2, 7>> >>

\* The clues kept by the sparse input grid; every other cell is blank.
SparseClues ==
  { <<0, 3>>, <<1, 0>>, <<1, 2>>, <<1, 5>>, <<1, 8>>, <<2, 6>>, <<3, 2>>,
    <<3, 3>>, <<3, 8>>, <<4, 8>>, <<6, 6>>, <<6, 8>>, <<8, 0>>, <<8, 1>>,
    <<8, 6>>, <<8, 8>> }

Holes(k) == {HoleOrder[i] : i \in 1 .. k}

\* Base with the first k cells of HoleOrder blanked and, when j > 0, the
\* j-th overwrite applied.
MakeInput(k, j) ==
  Grid(LAMBDA r, c :
         IF j > 0 /\ <<r, c>> = <<Corruptions[j][1], Corruptions[j][2]>>
           THEN Corruptions[j][3]
           ELSE IF <<r, c>> \in Holes(k) THEN 0 ELSE BaseGrid[r][c])

SparseInput == Grid(LAMBDA r, c : IF <<r, c>> \in SparseClues THEN BaseGrid[r][c] ELSE 0)

\* Sequencing: the function or record x is computed first, then y (a loop
\* finishes its first half before its second half starts).
Then(x, y) == IF DOMAIN x = DOMAIN x THEN y ELSE y

\* ---- sequences as Python lists ------------------------------------------
Range(s) == {s[i] : i \in 1 .. Len(s)}

\* `value in list`
Contains(s, v) == \E i \in 1 .. Len(s) : s[i] = v

\* list.remove(value): drops the first occurrence.
RemoveFirst(s, v) ==
  LET i == CHOOSE k \in 1 .. Len(s) :
             s[k] = v /\ \A m \in 1 .. (k - 1) : s[m] # v
  IN  SubSeq(s, 1, i - 1) \o SubSeq(s, i + 1, Len(s))

RECURSIVE InsertSorted(_, _)
InsertSorted(s, v) ==
  IF s = <<>> THEN <<v>>
  ELSE IF v < s[1] THEN <<v>> \o s
  ELSE <<s[1]>> \o InsertSorted(Tail(s), v)

\* the list taken in its stored order
Unsorted(s) == s

\* sorted(list): ascending, repeated values kept.
RECURSIVE Sorted(_)
Sorted(s) ==
  IF s = <<>> THEN <<>> ELSE InsertSorted(Sorted(Tail(s)), s[1])

\* the cells in scan order of `for row in range(9): for col in range(9)`
CellAt(i) == <<i \div N, i % N>>

\* ---- SudokuSolver.__init__ ----------------------------------------------
FullDomain == [i \in 1 .. N |-> i]

\* self.domains[(r, c)] is domains[r][c].
InitDomains(g) == Grid(LAMBDA r, c : IF g[r][c] = 0 THEN FullDomain ELSE <<g[r][c]>>)

\* ---- SudokuSolver.is_valid ----------------------------------------------
BoxOrigin(x) == BoxSize * (x \div BoxSize)

BoxCells(row, col) ==
  {<<r, c>> : r \in BoxOrigin(row) .. (BoxOrigin(row) + BoxSize - 1),
              c \in BoxOrigin(col) .. (BoxOrigin(col) + BoxSize - 1)}

\* the column loop missing
is_valid_no_column(g, row, col, value) ==
  /\ \A c \in Idx : g[row][c] # value
  /\ \A b \in BoxCells(row, col) : g[b[1]][b[2]] # value

is_valid(g, row, col, value) ==
  /\ \A c \in Idx : g[row][c] # value
  /\ \A r \in Idx : g[r][col] # value
  /\ \A b \in BoxCells(row, col) : g[b[1]][b[2]] # value

\* ---- SudokuSolver.select_unassigned_variable ----------------------------
\* One iteration of the first loop, at scan position i.  acc.inf stands for
\* mrv = float('inf'); acc.cands is candidate_vars.
MrvStep(g, d, i, acc) ==
  LET c  == CellAt(i)
      sz == Len(d[c[1]][c[2]])
  IN  IF g[c[1]][c[2]] # 0 THEN acc
      ELSE IF acc.inf \/ sz < acc.mrv
        THEN [inf |-> FALSE, mrv |-> sz, cands |-> <<c>>]
      ELSE IF sz = acc.mrv
        THEN [acc EXCEPT !.cands = Append(@, c)]
      ELSE acc

\* The first loop over the scan positions lo .. hi - 1, in order (the range
\* is halved so that the evaluation stays shallow).
RECURSIVE MrvScan(_, _, _, _, _)
MrvScan(g, d, lo, hi, acc) ==
  IF hi <= lo THEN acc
  ELSE IF hi = lo + 1 THEN MrvStep(g, d, lo, acc)
  ELSE LET mid  == (lo + hi) \div 2
           left == MrvScan(g, d, lo, mid, acc)
       IN  Then(left, MrvScan(g, d, mid, hi, left))

\* sum(1 for r in range(9) if puzzle[r][col] == 0)
\*   + sum(1 for c in range(9) if puzzle[row][c] == 0) - 2
Degree(g, row, col) ==
  Cardinality({r \in Idx : g[r][col] = 0})
    + Cardinality({c \in Idx : g[row][c] = 0}) - 2

\* `degree >= max_degree`: the last of the cells tying on degree wins
DegreeStepLast(g, cands, i, acc) ==
  LET deg == Degree(g, cands[i][1], cands[i][2])
  IN  IF deg >= acc.max_degree
        THEN [has |-> TRUE, max_degree |-> deg, var |-> cands[i]]
        ELSE acc

\* One iteration of the second loop, at candidate_vars[i].  acc.has is
\* `selected_var is not None`.
DegreeStep(g, cands, i, acc) ==
  LET deg == Degree(g, cands[i][1], cands[i][2])
  IN  IF deg > acc.max_degree
        THEN [has |-> TRUE, max_degree |-> deg, var |-> cands[i]]
        ELSE acc

\* The second loop over candidate_vars[lo .. hi - 1], in order.
RECURSIVE DegreeScan(_, _, _, _, _)
DegreeScan(g, cands, lo, hi, acc) ==
  IF hi <= lo THEN acc
  ELSE IF hi = lo + 1 THEN DegreeStep(g, cands, lo, acc)
  ELSE LET mid  == (lo + hi) \div 2
           left == DegreeScan(g, cands, lo, mid, acc)
       IN  Then(left, DegreeScan(g, cands, mid, hi, left))

select_unassigned_variable(g, d) ==
  LET cands == MrvScan(g, d, 0, N * N,
                       [inf |-> TRUE, mrv |-> 0, cands |-> <<>>]).cands
      sel   == DegreeScan(g, cands, 1, Len(cands) + 1,
                          [has |-> FALSE, max_degree |-> 0 - 1, var |-> <<0, 0>>])
  IN  IF sel.has THEN sel.var ELSE cands[1]

\* ---- SudokuSolver.forward_checking --------------------------------------
\* The cells the three sweeps visit, in order: the column, the row, the box.
\* `r != row` forgotten: the placed cell is swept too
ColumnSweepAll(row, col) == [i \in 1 .. N |-> <<i - 1, col>>]

ColumnSweep(row, col) ==
  SelectSeq([i \in 1 .. N |-> <<i - 1, col>>], LAMBDA c : c[1] # row)

\* the row loop missing: the row of the placed cell is not swept
RowSweepNone(row, col) == <<>>

RowSweep(row, col) ==
  SelectSeq([i \in 1 .. N |-> <<row, i - 1>>], LAMBDA c : c[2] # col)

BoxSweep(row, col) ==
  SelectSeq([i \in 1 .. BoxSize * BoxSize |->
               <<BoxOrigin(row) + ((i - 1) \div BoxSize),
                 BoxOrigin(col) + ((i - 1) % BoxSize)>>],
            LAMBDA c : c # <<row, col>>)

SweepCells(row, col) ==
  ColumnSweep(row, col) \o RowSweep(row, col) \o BoxSweep(row, col)

\* the removal not logged
PruneStepUnlogged(acc, c, value) ==
  IF Contains(acc.domains[c[1]][c[2]], value)
    THEN [acc EXCEPT !.domains[c[1]][c[2]] = RemoveFirst(@, value)]
    ELSE acc

\* the guard `value in domains[cell]` guarding the removal only: every visit
\* is logged
PruneStepAlways(acc, c, value) ==
  [domains |-> IF Contains(acc.domains[c[1]][c[2]], value)
                 THEN [acc.domains EXCEPT ![c[1]][c[2]] = RemoveFirst(@, value)]
                 ELSE acc.domains,
   removed |-> Append(acc.removed, <<c[1], c[2], value>>)]

\* One visit: `if value in domains[cell]: remove; removed.append(...)`.
PruneStep(acc, c, value) ==
  IF Contains(acc.domains[c[1]][c[2]], value)
    THEN [domains |-> [acc.domains EXCEPT ![c[1]][c[2]] = RemoveFirst(@, value)],
          removed |-> Append(acc.removed, <<c[1], c[2], value>>)]
    ELSE acc

\* The visits of cells[lo .. hi - 1], in order.
RECURSIVE Prune(_, _, _, _, _)
Prune(acc, cells, lo, hi, value) ==
  IF hi <= lo THEN acc
  ELSE IF hi = lo + 1 THEN PruneStep(acc, cells[lo], value)
  ELSE LET mid  == (lo + hi) \div 2
           left == Prune(acc, cells, lo, mid, value)
       IN  Then(left, Prune(left, cells, mid, hi, value))

\* Returns the pruned domain map and the removal log.
forward_checking(d, row, col, value) ==
  LET cells == SweepCells(row, col)
  IN  Prune([domains |-> d, removed |-> <<>>], cells, 1, Len(cells) + 1, value)

\* ---- SudokuSolver.undo_forward_check ------------------------------------
\* domains[(r, c)].append(value) for removed[lo .. hi - 1], in order.
RECURSIVE Restore(_, _, _, _)
Restore(d, removed, lo, hi) ==
  IF hi <= lo THEN d
  ELSE IF hi = lo + 1
    THEN [d EXCEPT ![removed[lo][1]][removed[lo][2]] = Append(@, removed[lo][3])]
  ELSE LET mid  == (lo + hi) \div 2
           left == Restore(d, removed, lo, mid)
       IN  Then(left, Restore(left, removed, mid, hi))

\* every record of the log appended twice
undo_forward_check_twice(d, removed) ==
  Restore(Restore(d, removed, 1, Len(removed) + 1), removed, 1, Len(removed) + 1)

\* the loop body missing: nothing is put back
undo_forward_check_nothing(d, removed) == d

\* the first record of the log skipped
undo_forward_check_skip_first(d, removed) == Restore(d, removed, 2, Len(removed) + 1)

undo_forward_check(d, removed) == Restore(d, removed, 1, Len(removed) + 1)

\* ---- state --------------------------------------------------------------
VARIABLES
  input,        \* the grid handed to SudokuSolver(puzzle), as it was then
  limit,        \* solve(limit): the time budget, in ticks
  puzzle,       \* self.puzzle
  domains,      \* self.domains: cell -> list of candidate digits
  stack,        \* the active backtrack() frames, innermost last
  ret,          \* value returned by the frame that has just returned
  pc,           \* "start": constructed; "run": inside solve; "done"
  elapsed,      \* last reading of time.time() - start_time
  returned,     \* what solve returned: "grid" (self.puzzle) or "None"
  assignments,  \* the list `assignments` of solve (the logged records)
  commits,      \* history: every puzzle[row][col] = value made, in order
  first_check,  \* history: clock reading at the first deadline check
  timed_out,    \* history: some backtrack entry found the deadline exceeded
  ret_entry,    \* history: grid and domains at entry of the frame in `ret`
  visited,      \* history: every grid a commit has produced
  tick          \* flips at every step of solve: 0, 1, 0, ...

vars ==
  << input, limit, puzzle, domains, stack, ret, pc, elapsed, returned,
     assignments, commits, first_check, timed_out, ret_entry, visited,
     tick >>

DomainSets(d) == Grid(LAMBDA r, c : Range(d[r][c]))

Snapshot(g, d) == [puzzle |-> g, domains |-> DomainSets(d)]

\* A frame that has just been called (it is at line 110).  entry and tried
\* are history: the state at the call, and the values this call has written
\* to its cell so far.
EntryFrame(g, d) ==
  [state |-> "entry", row |-> 0, col |-> 0, values |-> <<>>, idx |-> 0,
   removed |-> <<>>, entry |-> Snapshot(g, d), tried |-> <<>>]

Top == stack[Len(stack)]

Pop == SubSeq(stack, 1, Len(stack) - 1)

ReplaceTop(f) == [stack EXCEPT ![Len(stack)] = f]

\* ---- pieces of backtrack ------------------------------------------------
\* the comparison off by one tick
DeadlineExceededLate(t, lim) == t > lim + 1

\* time.time() - start_time > limit
DeadlineExceeded(t, lim) == t > lim

\* all(puzzle[r][c] != 0 ...)
Complete(g) == \A r \in Idx : \A c \in Idx : g[r][c] # 0

\* the indices swapped: puzzle[col][row] = value
AssignTransposed(g, row, col, value) == [g EXCEPT ![col][row] = value]

\* self.puzzle[row][col] = value
Assign(g, row, col, value) == [g EXCEPT ![row][col] = value]

\* the gate always open
NoWipeoutAlways(g, d) == TRUE

\* all(len(domains[(r, c)]) > 0 ... if puzzle[r][c] == 0)
NoWipeout(g, d) ==
  \A r \in Idx : \A c \in Idx : g[r][c] = 0 => Len(d[r][c]) > 0

\* the logging block: at most LogLimit records
LogAssignment(log, g, d, row, col, value) ==
  IF Len(log) < LogLimit
    THEN Append(log, [row |-> row, col |-> col,
                      domain_size |-> Len(d[row][col]),
                      degree |-> Degree(g, row, col), value |-> value])
    ELSE log

\* the clock never runs backwards between two readings
Readings == elapsed .. MaxElapsed

NoteCheck(t) ==
  /\ elapsed' = t
  /\ first_check' = IF first_check < 0 THEN t ELSE first_check

\* ---- initial states: SudokuSolver(puzzle) has been constructed ----------
InitWith(g, lim) ==
  /\ input = g
  /\ limit = lim
  /\ puzzle = g
  /\ domains = InitDomains(g)
  /\ stack = <<>>
  /\ ret = "none"
  /\ pc = "start"
  /\ elapsed = 0
  /\ returned = "pending"
  /\ assignments = <<>>
  /\ commits = <<>>
  /\ first_check = 0 - 1
  /\ timed_out = FALSE
  /\ ret_entry = Snapshot(g, InitDomains(g))
  /\ visited = {}
  /\ tick = 0

\* The small grids run under every budget; the sparse grid, whose search is
\* long, runs under the budget that never fires.
Init ==
  \/ \E k \in 0 .. MaxHoles, j \in 0 .. Len(Corruptions), lim \in 0 .. MaxElapsed :
       InitWith(MakeInput(k, j), lim)
  \/ InitWith(SparseInput, MaxElapsed)

\* ---- solve: lines 101-103, up to the call of backtrack ------------------
Solve ==
  /\ pc = "start"
  /\ pc' = "run"
  /\ elapsed' = 0
  /\ assignments' = <<>>
  /\ stack' = <<EntryFrame(puzzle, domains)>>
  /\ tick' = 1 - tick
  /\ UNCHANGED << input, limit, visited, puzzle, domains, ret, returned, commits,
                  first_check, timed_out, ret_entry >>

AtEntry == pc = "run" /\ stack # <<>> /\ Top.state = "entry"

\* ---- backtrack: lines 110-111 -------------------------------------------
BacktrackTimeout ==
  /\ AtEntry
  /\ \E t \in Readings :
       /\ DeadlineExceeded(t, limit)
       /\ NoteCheck(t)
  /\ timed_out' = TRUE
  /\ ret' = "false"
  /\ ret_entry' = Top.entry
  /\ stack' = Pop
  /\ tick' = 1 - tick
  /\ UNCHANGED << input, limit, visited, puzzle, domains, pc, returned, assignments, commits >>

\* ---- backtrack: lines 110-114 -------------------------------------------
BacktrackSolved ==
  /\ AtEntry
  /\ \E t \in Readings :
       /\ ~DeadlineExceeded(t, limit)
       /\ NoteCheck(t)
  /\ Complete(puzzle)
  /\ ret' = "true"
  /\ stack' = Pop
  /\ tick' = 1 - tick
  /\ UNCHANGED << input, limit, visited, puzzle, domains, pc, returned, assignments,
                  commits, timed_out, ret_entry >>

\* ---- backtrack: lines 110-117, up to the head of the loop ---------------
BacktrackSelect ==
  /\ AtEntry
  /\ \E t \in Readings :
       /\ ~DeadlineExceeded(t, limit)
       /\ NoteCheck(t)
  /\ ~Complete(puzzle)
  /\ LET var == select_unassigned_variable(puzzle, domains)
     IN  stack' = ReplaceTop([Top EXCEPT !.state = "loop",
                                         !.row = var[1],
                                         !.col = var[2],
                                         !.values = Sorted(domains[var[1]][var[2]]),
                                         !.idx = 1])
  /\ tick' = 1 - tick
  /\ UNCHANGED << input, limit, visited, puzzle, domains, ret, pc, returned, assignments,
                  commits, timed_out, ret_entry >>

AtLoop ==
  /\ pc = "run" /\ stack # <<>>
  /\ Top.state = "loop"
  /\ Top.idx <= Len(Top.values)

Candidate == Top.values[Top.idx]

\* ---- backtrack: line 118 false, next iteration --------------------------
TryInvalid ==
  /\ AtLoop
  /\ ~is_valid(puzzle, Top.row, Top.col, Candidate)
  /\ stack' = ReplaceTop([Top EXCEPT !.idx = @ + 1])
  /\ tick' = 1 - tick
  /\ UNCHANGED << input, limit, visited, puzzle, domains, ret, pc, elapsed, returned,
                  assignments, commits, first_check, timed_out, ret_entry >>

\* ---- backtrack: lines 118-132, up to the recursive call -----------------
CommitAndRecurse ==
  /\ AtLoop
  /\ is_valid(puzzle, Top.row, Top.col, Candidate)
  /\ LET g  == Assign(puzzle, Top.row, Top.col, Candidate)
         fc == forward_checking(domains, Top.row, Top.col, Candidate)
     IN  /\ NoWipeout(g, fc.domains)
         /\ puzzle' = g
         /\ domains' = fc.domains
         /\ assignments' =
              LogAssignment(assignments, g, fc.domains, Top.row, Top.col, Candidate)
         /\ stack' = Append(ReplaceTop([Top EXCEPT !.state = "wait",
                                                   !.removed = fc.removed,
                                                   !.tried = Append(@, Candidate)]),
                            EntryFrame(g, fc.domains))
  /\ commits' = Append(commits, <<Top.row, Top.col, Candidate>>)
  /\ visited' = visited \cup {Assign(puzzle, Top.row, Top.col, Candidate)}
  /\ tick' = 1 - tick
  /\ UNCHANGED << input, limit, ret, pc, elapsed, returned, first_check,
                  timed_out, ret_entry >>

\* ---- backtrack: lines 118-131 and 136-137, the wipeout gate closes ------
CommitWipeout ==
  /\ AtLoop
  /\ is_valid(puzzle, Top.row, Top.col, Candidate)
  /\ LET g  == Assign(puzzle, Top.row, Top.col, Candidate)
         fc == forward_checking(domains, Top.row, Top.col, Candidate)
     IN  /\ ~NoWipeout(g, fc.domains)
         /\ puzzle' = Assign(g, Top.row, Top.col, 0)
         /\ domains' = undo_forward_check(fc.domains, fc.removed)
         /\ assignments' =
              LogAssignment(assignments, g, fc.domains, Top.row, Top.col, Candidate)
  /\ commits' = Append(commits, <<Top.row, Top.col, Candidate>>)
  /\ visited' = visited \cup {Assign(puzzle, Top.row, Top.col, Candidate)}
  /\ stack' = ReplaceTop([Top EXCEPT !.idx = @ + 1, !.tried = Append(@, Candidate)])
  /\ tick' = 1 - tick
  /\ UNCHANGED << input, limit, ret, pc, elapsed, returned, first_check,
                  timed_out, ret_entry >>

AtWait == pc = "run" /\ stack # <<>> /\ Top.state = "wait"

\* ---- backtrack: lines 132-133, the recursive call returned True ---------
ChildSuccess ==
  /\ AtWait
  /\ ret = "true"
  /\ stack' = Pop
  /\ tick' = 1 - tick
  /\ UNCHANGED << input, limit, visited, puzzle, domains, ret, pc, elapsed, returned,
                  assignments, commits, first_check, timed_out, ret_entry >>

\* ---- backtrack: lines 132, 136-137, the recursive call returned False ---
ChildFailure ==
  /\ AtWait
  /\ ret = "false"
  /\ ret' = "none"
  /\ puzzle' = Assign(puzzle, Top.row, Top.col, 0)
  /\ domains' = undo_forward_check(domains, Top.removed)
  /\ stack' = ReplaceTop([Top EXCEPT !.state = "loop", !.idx = @ + 1,
                                     !.removed = <<>>])
  /\ tick' = 1 - tick
  /\ UNCHANGED << input, limit, visited, pc, elapsed, returned, assignments, commits,
                  first_check, timed_out, ret_entry >>

\* ---- backtrack: line 139, the loop is over ------------------------------
Exhausted ==
  /\ pc = "run" /\ stack # <<>>
  /\ Top.state = "loop"
  /\ Top.idx > Len(Top.values)
  /\ ret' = "false"
  /\ ret_entry' = Top.entry
  /\ stack' = Pop
  /\ tick' = 1 - tick
  /\ UNCHANGED << input, limit, visited, puzzle, domains, pc, elapsed, returned,
                  assignments, commits, first_check, timed_out >>

\* ---- solve: lines 103-106, backtrack has returned -----------------------
SolveReturn ==
  /\ pc = "run"
  /\ stack = <<>>
  /\ ret # "none"
  /\ returned' = IF ret = "true" THEN "grid" ELSE "None"
  /\ pc' = "done"
  /\ tick' = 1 - tick
  /\ UNCHANGED << input, limit, visited, puzzle, domains, stack, ret, elapsed,
                  assignments, commits, first_check, timed_out, ret_entry >>

Next ==
  \/ Solve
  \/ BacktrackTimeout
  \/ BacktrackSolved
  \/ BacktrackSelect
  \/ TryInvalid
  \/ CommitAndRecurse
  \/ CommitWipeout
  \/ ChildSuccess
  \/ ChildFailure
  \/ Exhausted
  \/ SolveReturn

Spec == Init /\ [][Next]_vars

\* The program is one sequential thread: as long as solve has not returned
\* it takes its next step.
Tick == pc # "done" /\ tick' = 1 - tick

FairSpec == Spec /\ WF_tick(Tick)

\* ---- vocabulary of the properties ---------------------------------------
RowCells(r) == {<<r, c>> : c \in Idx}

ColCells(c) == {<<r, c>> : r \in Idx}

Units ==
  {RowCells(r) : r \in Idx} \cup {ColCells(c) : c \in Idx}
    \cup {BoxCells(BoxSize * i, BoxSize * j) : i, j \in 0 .. (BoxSize - 1)}

\* every row, column and box holds each digit exactly once
ValidGrid(g) == \A u \in Units : {g[c[1]][c[2]] : c \in u} = Digits

\* two different fixed cells of one row hold the same digit
RowDuplicate(g) ==
  \E r \in Idx : \E c1, c2 \in Idx :
    c1 # c2 /\ g[r][c1] # 0 /\ g[r][c1] = g[r][c2]

\* s is a valid filling of g
Completes(s, g) ==
  /\ ValidGrid(s)
  /\ \A r \in Idx : \A c \in Idx : g[r][c] # 0 => s[r][c] = g[r][c]

\* Base is the valid filling of every input grid made from it without an
\* overwrite; an overwritten grid repeats a digit in a row or a column and
\* has no valid filling.
HasCompletion(g) == Completes(BaseGrid, g)

EmptyCells(g) == {c \in Cells : g[c[1]][c[2]] = 0}

Done == pc = "done"

\* C1: whenever solve returns a grid, every row, column and box of that grid
\* holds each digit 1..9 exactly once (for every input grid, full or not,
\* consistent or not).
C1_ReturnedGridValid == (Done /\ returned = "grid") => ValidGrid(puzzle)

\* C2: an input grid with the same digit in two fixed cells of one row is
\* answered with None, never with a grid.
C2_RowDuplicateUnsolved == (Done /\ RowDuplicate(input)) => returned = "None"

\* C3: in every state of a solve call, every cell that was nonzero in the
\* input grid still holds its input value.
C3_FixedCellsKept ==
  \A r \in Idx : \A c \in Idx : input[r][c] # 0 => puzzle[r][c] = input[r][c]

\* the search has assigned cells, taken assignments back, and returned a grid
\* that has fixed cells
C3_Witness ==
  /\ Done /\ returned = "grid"
  /\ Len(commits) > Cardinality(EmptyCells(input))
  /\ \E r \in Idx : \E c \in Idx : input[r][c] # 0

\* C4: when no deadline check fires, an input grid that has a valid filling
\* is answered with a grid, and that grid is a valid filling of the input.
C4_SolvableIsSolved ==
  (Done /\ ~timed_out /\ HasCompletion(input))
    => (returned = "grid" /\ Completes(puzzle, input))

\* a solvable input on which the search had to back up before it succeeded
C4_Witness ==
  /\ Done /\ ~timed_out /\ HasCompletion(input) /\ returned = "grid"
  /\ Len(commits) > Cardinality(EmptyCells(input))

\* C5: when a backtrack call returns failure, the grid equals the grid at
\* that call's entry and every domain is set-equal to the domain at that
\* call's entry; when solve returns None the grid is the input grid and the
\* domains are those of the constructor.
C5_FailureRestores ==
  /\ ret = "false" =>
       /\ puzzle = ret_entry.puzzle
       /\ DomainSets(domains) = ret_entry.domains
  /\ (Done /\ returned = "None") =>
       /\ puzzle = input
       /\ DomainSets(domains) = DomainSets(InitDomains(input))

\* solve returned None by exhaustion, after commits that had to be undone
C5_Witness ==
  Done /\ returned = "None" /\ ~timed_out /\ commits # <<>>

\* C6: once a backtrack entry has found the deadline exceeded, no cell is
\* assigned (no commit is made) and no frame is pushed before solve returns.
C6_NoSearchAfterTimeout ==
  [][timed_out => (commits' = commits /\ Len(stack') <= Len(stack))]_vars

\* C7: with a budget of 0 solve returns None, whatever the clock reads at the
\* first deadline check.
C7_ZeroBudgetUnsolved == (Done /\ limit = 0) => returned = "None"

\* C7 as amended: with a budget of 0 solve returns None, without a single
\* commit, whenever the clock has advanced at the first deadline check.
C7_ZeroBudgetClockAdvanced ==
  (Done /\ limit = 0 /\ first_check > 0)
    => (returned = "None" /\ commits = <<>> /\ puzzle = input)

\* a solvable grid with empty cells, budget 0, the clock had advanced
C7_Witness ==
  /\ Done /\ limit = 0 /\ first_check > 0
  /\ HasCompletion(input) /\ EmptyCells(input) # {}

\* forward_checking then undo_forward_check, from the domain map d, for
\* every cell and value
UndoRestores(d) ==
  \A c \in Cells : \A v \in Digits :
    LET fc    == forward_checking(d, c[1], c[2], v)
        after == undo_forward_check(fc.domains, fc.removed)
    IN  \A r \in Idx : \A x \in Idx : Range(after[r][x]) = Range(d[r][x])

\* C8: from every reachable domain map (the constructor's, and every map a
\* step of the search produces), for every cell and value, forward_checking
\* followed by undo_forward_check on its removal log leaves every domain
\* set-equal to what it was.
C8_UndoRestoresDomains ==
  /\ pc = "start" => UndoRestores(domains)
  /\ [][domains' # domains => UndoRestores(domains')]_vars

\* a reachable domain map, in the middle of a search, on which some
\* forward_checking call prunes at least one peer
C8_Witness ==
  /\ pc = "run" /\ Len(stack) > 1
  /\ \E c \in Cells : \E v \in Digits :
       forward_checking(domains, c[1], c[2], v).removed # <<>>

\* ---- a position-free run, to compare with -------------------------------
\* The same search with every domain held as a set: the selector reads set
\* sizes, the values are enumerated in ascending order, pruning and undoing
\* are set difference and union, and no clock is read.  Its result is a
\* function of the input grid alone.
Peers(row, col) ==
  (RowCells(row) \cup ColCells(col) \cup BoxCells(row, col)) \ {<<row, col>>}

Ascending(S) == SelectSeq(FullDomain, LAMBDA v : v \in S)

ScanPos(c) == c[1] * N + c[2]

RefSelect(g, dom) ==
  LET U       == EmptyCells(g)
      size(c) == Cardinality(dom[c[1]][c[2]])
      m       == CHOOSE k \in {size(c) : c \in U} : \A c \in U : k <= size(c)
      M       == {c \in U : size(c) = m}
      deg(c)  == Degree(g, c[1], c[2])
      best    == CHOOSE k \in {deg(c) : c \in M} : \A c \in M : deg(c) <= k
      D       == {c \in M : deg(c) = best}
  IN  CHOOSE c \in D : \A e \in D : ScanPos(c) <= ScanPos(e)

RefFrame ==
  [state |-> "entry", row |-> 0, col |-> 0, values |-> <<>>, idx |-> 0, pruned |-> {}]

RefInit(g) ==
  [puzzle |-> g, dom |-> DomainSets(InitDomains(g)), stack |-> <<RefFrame>>,
   ret |-> "none", commits |-> <<>>]

RefPop(m, r) ==
  [m EXCEPT !.stack = SubSeq(@, 1, Len(@) - 1), !.ret = r]

RefStep(m) ==
  IF m.stack = <<>> THEN m
  ELSE
    LET n   == Len(m.stack)
        top == m.stack[n]
    IN  CASE top.state = "entry" ->
               IF Complete(m.puzzle) THEN RefPop(m, "true")
               ELSE LET var == RefSelect(m.puzzle, m.dom)
                    IN  [m EXCEPT !.stack[n] =
                           [top EXCEPT !.state = "loop", !.row = var[1], !.col = var[2],
                                       !.values = Ascending(m.dom[var[1]][var[2]]),
                                       !.idx = 1]]
          [] top.state = "loop" ->
               IF top.idx > Len(top.values) THEN RefPop(m, "false")
               ELSE
                 LET v      == top.values[top.idx]
                     g      == [m.puzzle EXCEPT ![top.row][top.col] = v]
                     pruned == {c \in Peers(top.row, top.col) : v \in m.dom[c[1]][c[2]]}
                     dom    == Grid(LAMBDA r, c : IF <<r, c>> \in pruned
                                                    THEN m.dom[r][c] \ {v}
                                                    ELSE m.dom[r][c])
                     gone   == \E c \in EmptyCells(g) : dom[c[1]][c[2]] = {}
                 IN  IF ~is_valid(m.puzzle, top.row, top.col, v)
                       THEN [m EXCEPT !.stack[n].idx = @ + 1]
                     ELSE IF gone
                       THEN [m EXCEPT !.stack[n].idx = @ + 1,
                                      !.commits = Append(@, <<top.row, top.col, v>>)]
                     ELSE [m EXCEPT !.puzzle = g,
                                    !.dom = dom,
                                    !.commits = Append(@, <<top.row, top.col, v>>),
                                    !.stack = Append([@ EXCEPT ![n].state = "wait",
                                                               ![n].pruned = pruned],
                                                     RefFrame)]
          [] top.state = "wait" ->
               IF m.ret = "true" THEN RefPop(m, "true")
               ELSE
                 LET v == top.values[top.idx]
                 IN  [m EXCEPT !.puzzle[top.row][top.col] = 0,
                               !.dom = Grid(LAMBDA r, c : IF <<r, c>> \in top.pruned
                                                            THEN m.dom[r][c] \cup {v}
                                                            ELSE m.dom[r][c]),
                               !.ret = "none",
                               !.stack[n] = [top EXCEPT !.state = "loop", !.idx = @ + 1,
                                                        !.pruned = {}]]

\* n steps from m
RECURSIVE RefSteps(_, _)
RefSteps(m, n) ==
  IF n = 0 THEN m
  ELSE IF n = 1 THEN RefStep(m)
  ELSE LET left == RefSteps(m, n \div 2)
       IN  Then(left, RefSteps(left, n - (n \div 2)))

RefRun(g) == RefSteps(RefInit(g), RefFuel)

\* C9: with a deadline that never fires, every run on the same input grid
\* makes the commits of the position-free run, in the same order, and returns
\* what it returns: the commits and the result are a function of the input
\* grid, whatever the clock read and wherever undo re-appended the values.
C9_RunIsFunctionOfInput ==
  (Done /\ ~timed_out) =>
    LET ref == RefRun(input)
    IN  /\ ref.stack = <<>>
        /\ commits = ref.commits
        /\ puzzle = ref.puzzle
        /\ (returned = "grid") = (ref.ret = "true")

\* a finished run that backed up and left some domain list out of ascending
\* order
C9_Witness ==
  /\ Done /\ ~timed_out /\ returned = "grid"
  /\ Len(commits) > Cardinality(EmptyCells(input))
  /\ \E r \in Idx : \E c \in Idx : domains[r][c] # Sorted(domains[r][c])

\* C10: in every reachable state every assigned cell, fixed or committed by
\* the search, has exactly the singleton of its value as domain.
C10_AssignedSingleton ==
  \A r \in Idx : \A c \in Idx : puzzle[r][c] # 0 => domains[r][c] = <<puzzle[r][c]>>

\* C10 as amended: a cell fixed in the input has exactly the singleton of its
\* value as domain; a cell committed by the search keeps its candidate list,
\* which contains the committed value.
C10_FixedSingletonCommittedMember ==
  \A r \in Idx : \A c \in Idx :
    /\ input[r][c] # 0 => domains[r][c] = <<input[r][c]>>
    /\ (input[r][c] = 0 /\ puzzle[r][c] # 0) => Contains(domains[r][c], puzzle[r][c])

\* a committed cell whose domain still has several candidates, next to a
\* fixed cell
C10_Witness ==
  /\ \E r \in Idx : \E c \in Idx :
       input[r][c] = 0 /\ puzzle[r][c] # 0 /\ Len(domains[r][c]) > 1
  /\ \E r \in Idx : \E c \in Idx : input[r][c] # 0

\* ---- the active commits -------------------------------------------------
\* The frames waiting for their recursive call: each holds one commit that
\* has been propagated and not undone, of value values[idx] at (row, col).
ActiveFrames == {i \in 1 .. Len(stack) : stack[i].state = "wait"}

Committed(f) == f.values[f.idx]

NoRepeat(s) == \A i, j \in 1 .. Len(s) : s[i] = s[j] => i = j

\* C11: in every state (at every backtrack entry, after every commit and
\* after every undo) no unassigned peer of an active commit has the committed
\* value in its domain, and every (cell, value) pair an active commit pruned
\* is still absent from that cell's domain: undoing a deeper commit has not
\* put it back.
C11_ActiveCommitsStayPruned ==
  \A i \in ActiveFrames :
    LET f == stack[i]
    IN  /\ \A p \in Peers(f.row, f.col) :
             puzzle[p[1]][p[2]] = 0 => ~Contains(domains[p[1]][p[2]], Committed(f))
        /\ \A k \in 1 .. Len(f.removed) :
             ~Contains(domains[f.removed[k][1]][f.removed[k][2]], f.removed[k][3])

\* a deeper frame has undone a commit (some domain list is out of order)
\* under a shallower commit that is still active, has pruned peers and has an
\* unassigned peer
C11_Witness ==
  /\ Len(stack) >= 2
  /\ Top.state = "loop" /\ Top.idx > 1
  /\ stack[1].state = "wait" /\ stack[1].removed # <<>>
  /\ \E p \in Peers(stack[1].row, stack[1].col) : puzzle[p[1]][p[2]] = 0
  /\ \E r \in Idx : \E c \in Idx : domains[r][c] # Sorted(domains[r][c])

\* C12: the removal log of every forward_checking call the search makes has
\* no (cell, value) pair twice, although the box sweep revisits cells of the
\* column and row sweeps; and every domain list is duplicate-free in every
\* reachable state.
C12_NoDoubleRemoval ==
  /\ pc = "start" => \A r \in Idx : \A c \in Idx : NoRepeat(domains[r][c])
  /\ [][/\ \A r \in Idx : \A c \in Idx : NoRepeat(domains'[r][c])
        /\ commits' # commits =>
             LET k == commits'[Len(commits')]
             IN  NoRepeat(forward_checking(domains, k[1], k[2], k[3]).removed)]_vars

\* a commit whose sweeps met a pruned cell twice (in the box and in the row
\* or column of the placed cell), after some commit had been undone
C12_Witness ==
  /\ AtWait
  /\ Len(commits) > Cardinality(ActiveFrames)
  /\ \E k \in 1 .. Len(Top.removed) :
       /\ <<Top.removed[k][1], Top.removed[k][2]>> \in BoxCells(Top.row, Top.col)
       /\ Top.removed[k][1] = Top.row \/ Top.removed[k][2] = Top.col

\* C13: in every reachable state a cell assigned by a search commit holds a
\* value that no other cell of its row, column or box holds, fixed or
\* search-placed.
C13_CommittedCellsConflictFree ==
  \A r \in Idx : \A c \in Idx :
    (input[r][c] = 0 /\ puzzle[r][c] # 0) =>
      \A p \in Peers(r, c) : puzzle[p[1]][p[2]] # puzzle[r][c]

\* two active commits next to fixed cells, one of them made after an earlier
\* candidate of its frame was rejected by is_valid or undone
C13_Witness ==
  /\ Cardinality(ActiveFrames) >= 2
  /\ \E i \in ActiveFrames : stack[i].idx > 1
  /\ \E r \in Idx : \E c \in Idx : input[r][c] # 0

\* The unassigned cells of smallest domain size and, among them, those of
\* largest degree.
MinDomainCells(g, d) ==
  {c \in EmptyCells(g) :
     \A e \in EmptyCells(g) : Len(d[c[1]][c[2]]) <= Len(d[e[1]][e[2]])}

MaxDegreeCells(g, d) ==
  {c \in MinDomainCells(g, d) :
     \A e \in MinDomainCells(g, d) : Degree(g, e[1], e[2]) <= Degree(g, c[1], c[2])}

\* C14: on every reachable grid with an unassigned cell (those on which
\* backtrack calls it included), select_unassigned_variable returns an
\* unassigned cell of minimal domain size, of maximal degree among the cells
\* of minimal domain size, and first in row-major order among the cells tying
\* on both.
C14_SelectorMrvDegreeFirst ==
  ~Complete(puzzle) =>
    LET var == select_unassigned_variable(puzzle, domains)
    IN  /\ var \in MaxDegreeCells(puzzle, domains)
        /\ \A e \in MaxDegreeCells(puzzle, domains) : ScanPos(var) <= ScanPos(e)

\* backtrack is about to call the selector on a grid where the three
\* criteria all decide: some unassigned cell has a larger domain, the first
\* cell of minimal domain size has a smaller degree, and several cells tie on
\* both
C14_Witness ==
  /\ AtEntry /\ ~Complete(puzzle)
  /\ MinDomainCells(puzzle, domains) # EmptyCells(puzzle)
  /\ \E c \in MinDomainCells(puzzle, domains) \ MaxDegreeCells(puzzle, domains) :
       \A e \in MaxDegreeCells(puzzle, domains) : ScanPos(c) < ScanPos(e)
  /\ Cardinality(MaxDegreeCells(puzzle, domains)) > 1

\* every unassigned cell of g has a candidate left in d
AllNonempty(g, d) == \A c \in EmptyCells(g) : d[c[1]][c[2]] # <<>>

\* C15: at every backtrack entry, the root's included (there the selector is
\* invoked next), every unassigned cell has a nonempty domain; a frame is
\* pushed only onto such a state; and a commit whose propagation empties the
\* domain of an unassigned cell is undone in the same step, grid and domains
\* back to what they were, without a frame being pushed.
C15_RecurseOnlyWithoutWipeout ==
  /\ [](AtEntry => AllNonempty(puzzle, domains))
  /\ [][/\ Len(stack') > Len(stack) => AllNonempty(puzzle', domains')
        /\ commits' # commits =>
             LET k  == commits'[Len(commits')]
                 g  == Assign(puzzle, k[1], k[2], k[3])
                 fc == forward_checking(domains, k[1], k[2], k[3])
             IN  ~AllNonempty(g, fc.domains) =>
                   /\ Len(stack') = Len(stack)
                   /\ puzzle' = puzzle
                   /\ DomainSets(domains') = DomainSets(domains)]_vars

\* the frame on top has just undone a commit that the gate refused: its
\* previous candidate is valid on the grid and its propagation empties the
\* domain of an unassigned cell
C15_Witness ==
  /\ pc = "run" /\ stack # <<>>
  /\ Top.state = "loop" /\ Top.idx > 1
  /\ LET v  == Top.values[Top.idx - 1]
         g  == Assign(puzzle, Top.row, Top.col, v)
         fc == forward_checking(domains, Top.row, Top.col, v)
     IN  /\ is_valid(puzzle, Top.row, Top.col, v)
         /\ ~AllNonempty(g, fc.domains)

StrictlyAscending(s) == \A i, j \in 1 .. Len(s) : i < j => s[i] < s[j]

\* C16: in every frame the values written so far to the selected cell are in
\* strictly ascending order and all belong to the domain the cell had when
\* the frame selected it, whatever the cell's domain list has become since.
C16_FrameCommitsAscending ==
  \A i \in 1 .. Len(stack) :
    LET f == stack[i]
    IN  /\ StrictlyAscending(f.tried)
        /\ Range(f.tried) \subseteq f.entry.domains[f.row][f.col]

\* a frame has written its second value while the domain list of its cell is
\* no longer the list it enumerates: deeper commits and undos have reordered
\* it
C16_Witness ==
  \E i \in ActiveFrames :
    /\ Len(stack[i].tried) >= 2
    /\ domains[stack[i].row][stack[i].col] # stack[i].values
    /\ Range(domains[stack[i].row][stack[i].col]) = Range(stack[i].values)

\* the frames past the completeness check: they have selected a cell
SearchFrames == {i \in 1 .. Len(stack) : stack[i].state # "entry"}

\* C17: the frames past the completeness check, and so the commits active at
\* the same time, are never more than the cells unassigned in the input grid
\* (at most N * N = 81); they have selected pairwise different cells, each
\* unassigned in the input and at the frame's entry.
C17_DepthBoundedByEmptyCells ==
  /\ Cardinality(ActiveFrames) <= Cardinality(SearchFrames)
  /\ Cardinality(SearchFrames) <= Cardinality(EmptyCells(input))
  /\ Cardinality(EmptyCells(input)) <= N * N
  /\ \A i, j \in SearchFrames :
       i # j => <<stack[i].row, stack[i].col>> # <<stack[j].row, stack[j].col>>
  /\ \A i \in SearchFrames :
       /\ input[stack[i].row][stack[i].col] = 0
       /\ stack[i].entry.puzzle[stack[i].row][stack[i].col] = 0

\* every cell that was unassigned in the input holds an active commit, in a
\* run that has taken commits back before
C17_Witness ==
  /\ Cardinality(ActiveFrames) = Cardinality(EmptyCells(input))
  /\ Cardinality(ActiveFrames) >= 3
  /\ Len(commits) > Cardinality(ActiveFrames)

\* C18: under every budget, the one that never fires included, solve
\* eventually returns; and no commit produces a grid that an earlier commit
\* of the run had produced: no partial assignment is visited twice.
C18_SolveTerminates ==
  /\ <>Done
  /\ [][commits' # commits =>
          LET k == commits'[Len(commits')]
          IN  Assign(puzzle, k[1], k[2], k[3]) \notin visited]_vars

\* solve has returned under the budget that never fires, after a search
\* that took commits back
C18_Witness ==
  /\ Done /\ ~timed_out /\ limit = MaxElapsed
  /\ Cardinality(visited) > Cardinality(EmptyCells(input))
  /\ Cardinality(visited) = Len(commits)

\* C19: at most LogLimit records are logged, and every record logged by a
\* commit carries the cell, the value, the domain size the cell had when the
\* frame selected it and the degree the selector computed for it then, on
\* the grid in which the cell was still unassigned.
C19_LogAtSelectionTime ==
  [][assignments' # assignments =>
       LET rec == assignments'[Len(assignments')]
       IN  /\ Len(assignments') = Len(assignments) + 1
           /\ Len(assignments') <= LogLimit
           /\ rec.row = Top.row /\ rec.col = Top.col /\ rec.value = Candidate
           /\ rec.domain_size = Len(Top.values)
           /\ rec.degree = Degree(Top.entry.puzzle, Top.row, Top.col)]_vars

====
